---- MODULE Spec2Model ----
(***************************************************************************)
(* Model of the Chainway R6 Web-Bluetooth client:                          *)
(*   - ChainwayR6Service (services/chainway-r6.service.ts): the session    *)
(*     fields, connect/disconnect, the command writers, the notification   *)
(*     handler and the tag parser;                                         *)
(*   - RFIDReader (components/RFIDReader.tsx): the two subscribers and the  *)
(*     click handlers, with the guards of the rendered controls;           *)
(*   - the BLE transport the service talks to (devices, GATT connections,  *)
(*     event listeners, pending promises).                                 *)
(* An action is one JavaScript task together with the microtasks it runs:  *)
(* an async function is cut at the awaits whose promise the transport      *)
(* settles, and the code that runs when such a promise settles (including  *)
(* the continuation of the caller that awaits the async function) is part  *)
(* of the same action.                                                     *)
(***************************************************************************)
EXTENDS Integers, Sequences, FiniteSets, Bags, TLC

(* ------------------------------ bounds --------------------------------- *)
\* readers in radio range
MaxDevices == 1
\* concurrent connect() invocations
MaxConnects == 2
\* concurrent command writes awaiting the transport
MaxOps == 1
\* listeners of one kind registered on one object
MaxListeners == 3
\* notifications delivered in one run
MaxNotifs == 2
\* frames counted on one connection
MaxSent == 2
\* largest value of the millisecond clock
MaxTime == 1
\* notifications delivered in one run of the decoder
MaxDecoded == 1

(* ----------------------------- constants ------------------------------- *)
NULL == "null"
DeviceOrder == <<"d1", "d2", "d3">>
Devices == {DeviceOrder[k] : k \in 1..MaxDevices}
Status == {"disconnected", "connecting", "connected", "error"}
\* power values a caller of the facade may pass to setPower
PowerInputs == (0 - 1)..31
\* the values among them tried while the session is examined
PowerSamples == {0 - 1, 0, 20, 30, 31}
\* positions of the range input of the power slider (min 0, max 30)
SliderValues == {0, 20, 30}
InitialPower == 20

(* --------------------------- byte arithmetic --------------------------- *)
RECURSIVE SumSeq(_)
SumSeq(s) == IF s = <<>> THEN 0 ELSE Head(s) + SumSeq(Tail(s))

\* x & 0xFF for a non-negative x
And255(x) == x % 256

\* calculateChecksum; first a variant whose loop starts at index 1
calculateChecksumFromOne(data) == And255(SumSeq(Tail(data)))
calculateChecksum(data) == And255(SumSeq(data))

\* Uint8Array.slice(from, to): clamped to the length of the array
Slice(data, from, to) ==
    LET hi == IF to > Len(data) THEN Len(data) ELSE to
    IN  IF from >= hi THEN <<>>
        ELSE [i \in 1..(hi - from) |-> data[from + i]]

\* data[i] with a 0-based index; -1 stands for JavaScript's undefined
At(data, i) == IF i + 1 <= Len(data) THEN data[i + 1] ELSE 0 - 1

HexLower == <<"0","1","2","3","4","5","6","7","8","9","a","b","c","d","e","f">>
HexUpper == <<"0","1","2","3","4","5","6","7","8","9","A","B","C","D","E","F">>

\* b.toString(16).padStart(2, '0')
ToHex(b) == <<HexLower[(b \div 16) + 1], HexLower[(b % 16) + 1]>>

\* String.prototype.toUpperCase on a string of hex digits
ToUpperCase(s) ==
    [i \in 1..Len(s) |->
        LET k == CHOOSE j \in 1..16 : HexLower[j] = s[i] \/ HexUpper[j] = s[i]
        IN  HexUpper[k]]

RECURSIVE Join(_)
Join(ss) == IF ss = <<>> THEN <<>> ELSE Head(ss) \o Join(Tail(ss))

\* Number.prototype.toString() of a byte, as a string of decimal digits
DecStr(n) ==
    IF n < 10 THEN <<HexLower[n + 1]>>
    ELSE IF n < 100 THEN <<HexLower[(n \div 10) + 1], HexLower[(n % 10) + 1]>>
    ELSE <<HexLower[(n \div 100) + 1], HexLower[((n \div 10) % 10) + 1],
           HexLower[(n % 10) + 1]>>

(* --------------------------- command frames ---------------------------- *)
StartFrame == <<160, 4, 1, 39, 204>>
StopFrame == <<160, 4, 1, 40, 205>>
GetPowerFrame == <<160, 4, 1, 183, 92>>
\* the value an element of a Uint8Array takes when x is stored in it
ToUint8(x) == x % 256
\* the setPower command; first one whose length byte leaves out the power
\* byte
SetPowerFrameShortLength(p) ==
    LET command == <<160, 4, 1, 182, ToUint8(p), 0>>
    IN  [command EXCEPT ![6] = ToUint8(calculateChecksum(Slice(command, 0, 5)))]
SetPowerFrame(p) ==
    LET command == <<160, 5, 1, 182, ToUint8(p), 0>>
    IN  [command EXCEPT ![6] = ToUint8(calculateChecksum(Slice(command, 0, 5)))]

(* ------------------------------- state --------------------------------- *)
VARIABLES
    \* ChainwayR6Service fields
    device,             \* NULL or the device the chooser returned
    server,             \* NULL or the device whose GATT server is held
    characteristic,     \* [dev, live]: dev is NULL, or the device whose
                        \* characteristic object is held; live is FALSE once
                        \* the connection that produced the object has ended
    isInventoryRunning,
    \* suspended async functions
    conns,              \* the connect() invocations in flight (a bag)
    ops,                \* the command writes awaiting the transport (a bag)
    \* transport
    known,              \* the devices the chooser has returned so far
    gattConnected,      \* device -> device.gatt.connected
    devListeners,       \* device -> number of 'gattserverdisconnected' listeners
    chListeners,        \* device -> number of 'characteristicvaluechanged'
                        \* listeners on its current characteristic object
    sent,               \* device -> frames handed to writeValue on its
                        \* current connection (MaxSent: that many or more)
    now,                \* Date.now()
    \* RFIDReader state
    connectionStatus,   \* the status most recently emitted
    isScanning,
    tags,               \* Map: epc -> TagWithId
    power,
    \* observation of the run
    seen,               \* epc -> [n, t]: tag-read events since the last clear
    delivered,          \* notifications delivered so far
    last                \* what the most recent step did

svcVars == <<device, server, characteristic, isInventoryRunning>>
bleVars == <<known, gattConnected, devListeners, chListeners, sent>>
uiVars == <<connectionStatus, isScanning, tags, power>>
vars == <<device, server, characteristic, isInventoryRunning, conns, ops,
          known, gattConnected, devListeners, chListeners, sent, now,
          connectionStatus, isScanning, tags, power, seen, delivered, last>>

EmptyMap == [e \in {} |-> 0]
NoChar == [dev |-> NULL, live |-> FALSE]

\* the record of a step: the operation, its result as far as the step got,
\* the statuses it emitted, the frames it handed to writeValue, the
\* notification it handled and the tags it passed to the tag subscriber
Step(op, via, ret, emits, writes) ==
    [op |-> op, via |-> via, ret |-> ret, emits |-> emits, writes |-> writes,
     at |-> "", arg |-> 0, data |-> <<>>, cb |-> <<>>, calls |-> 0]

Init ==
    /\ device = NULL
    /\ server = NULL
    /\ characteristic = NoChar
    /\ isInventoryRunning = FALSE
    /\ conns = EmptyBag
    /\ ops = EmptyBag
    /\ known = {}
    /\ gattConnected = [d \in Devices |-> FALSE]
    /\ devListeners = [d \in Devices |-> 0]
    /\ chListeners = [d \in Devices |-> 0]
    /\ sent = [d \in Devices |-> 0]
    /\ now = 0
    /\ connectionStatus = "disconnected"
    /\ isScanning = FALSE
    /\ tags = EmptyMap
    /\ power = InitialPower
    /\ seen = EmptyMap
    /\ delivered = 0
    /\ last = Step("init", "api", "void", <<>>, <<>>)

(* ------------------------- RFIDReader subscribers ---------------------- *)
\* the status subscriber, applied to the statuses one step emits, in order
ScanningAfter(scanning, emits) ==
    IF \E k \in 1..Len(emits) : emits[k] \in {"disconnected", "error"}
    THEN FALSE ELSE scanning
StatusAfter(status, emits) ==
    IF emits = <<>> THEN status ELSE emits[Len(emits)]

\* the tag subscriber: the updater passed to setTags
WithId(tag) ==
    [epc |-> tag.epc, rssi |-> tag.rssi, count |-> tag.count, pc |-> tag.pc,
     timestamp |-> tag.timestamp, id |-> tag.epc]
\* a variant that updates the count of the stored record in place
OnTagReadKeepExisting(prevTags, tag) ==
    IF tag.epc \in DOMAIN prevTags
    THEN [prevTags EXCEPT ![tag.epc].count = @ + 1]
    ELSE [e \in DOMAIN prevTags \cup {tag.epc} |->
            IF e = tag.epc THEN WithId(tag) ELSE prevTags[e]]
OnTagRead(prevTags, tag) ==
    IF tag.epc \in DOMAIN prevTags
    THEN [prevTags EXCEPT ![tag.epc] =
            [WithId(tag) EXCEPT !.count = prevTags[tag.epc].count + 1]]
    ELSE [e \in DOMAIN prevTags \cup {tag.epc} |->
            IF e = tag.epc THEN WithId(tag) ELSE prevTags[e]]

(* ------------------------------ transport ------------------------------ *)
One(r) == SetToBag({r})
Replace(b, old, new) == (b (-) One(old)) (+) One(new)

RECURSIVE Copies(_, _)
Copies(S, b) ==
    IF S = {} THEN 0
    ELSE LET r == CHOOSE x \in S : TRUE IN b[r] + Copies(S \ {r}, b)
\* promises and objects of device d that die with its connection
StaleConn(r, d) ==
    IF r.dev = d /\ r.pc \in {"getPrimaryService", "getCharacteristic", "startNotifications"}
    THEN [r EXCEPT !.live = FALSE] ELSE r
StaleOp(r, d) == IF r.dev = d THEN [r EXCEPT !.live = FALSE] ELSE r
StaleChar(ch, d) == IF ch.dev = d THEN [ch EXCEPT !.live = FALSE] ELSE ch

\* the bags of pending promises after the connection of d has ended
StaleConns(b, d) ==
    [x \in {StaleConn(r, d) : r \in BagToSet(b)} |->
        Copies({r \in BagToSet(b) : StaleConn(r, d) = x}, b)]
StaleOps(b, d) ==
    [x \in {StaleOp(r, d) : r \in BagToSet(b)} |->
        Copies({r \in BagToSet(b) : StaleOp(r, d) = x}, b)]

Repeat(x, n) == [k \in 1..n |-> x]

\* the chooser lists known devices and at most one device not seen before
Choosable ==
    known \cup {DeviceOrder[k] : k \in {j \in 1..MaxDevices :
                    /\ DeviceOrder[j] \notin known
                    /\ \A i \in 1..(j - 1) : DeviceOrder[i] \in known}}

(* ------------------------- ChainwayR6Service --------------------------- *)
\* the effect of the statuses of one step on the RFIDReader state
Emit(emits) ==
    /\ connectionStatus' = StatusAfter(connectionStatus, emits)
    /\ isScanning' = ScanningAfter(isScanning, emits)

\* connect(), up to the await of requestDevice
connect(via) ==
    /\ BagCardinality(conns) < MaxConnects
    /\ conns' = conns (+) One([pc |-> "requestDevice", dev |-> NULL, live |-> TRUE,
                               via |-> via, pw |-> IF via = "ui" THEN power ELSE 0])
    /\ Emit(<<"connecting">>)
    /\ last' = [Step("connect", via, "pending", <<"connecting">>, <<>>) EXCEPT !.at = "call"]
    /\ UNCHANGED <<svcVars, ops, bleVars, now, tags, power, seen, delivered>>

\* the catch block of connect(), entered from the await or statement `at`;
\* handleConnect's catch only records the message.  First a catch block
\* that rethrows without the status update
ConnectCatchNoStatus(r, at) ==
    /\ conns' = conns (-) One(r)
    /\ Emit(<<>>)
    /\ last' = [Step("connect", r.via, "rejected", <<>>, <<>>) EXCEPT !.at = at]
ConnectCatch(r, at) ==
    /\ conns' = conns (-) One(r)
    /\ Emit(<<"error">>)
    /\ last' = [Step("connect", r.via, "rejected", <<"error">>, <<>>) EXCEPT !.at = at]

\* a transport promise awaited by connect() rejects
ConnectFail(r) ==
    /\ ConnectCatch(r, r.pc)
    /\ UNCHANGED <<svcVars, ops, bleVars, now, tags, power, seen, delivered>>

\* requestDevice resolves with device d; hasGatt is whether d.gatt exists
RequestDeviceOk(r, d, hasGatt) ==
    /\ r.pc = "requestDevice"
    /\ d \in Choosable
    /\ known' = known \cup {d}
    /\ device' = d
    /\ IF hasGatt
       THEN /\ conns' = Replace(conns, r, [r EXCEPT !.pc = "gattConnect", !.dev = d])
            /\ last' = [Step("connect", r.via, "pending", <<>>, <<>>) EXCEPT !.at = "requestDevice"]
            /\ UNCHANGED <<connectionStatus, isScanning>>
       ELSE ConnectCatch(r, "gatt")
    /\ UNCHANGED <<server, characteristic, isInventoryRunning, ops, gattConnected,
                   devListeners, chListeners, sent, now, tags, power, seen, delivered>>

\* device.gatt.connect() resolves
GattConnectOk(r) ==
    /\ r.pc = "gattConnect"
    /\ gattConnected' = [gattConnected EXCEPT ![r.dev] = TRUE]
    /\ server' = r.dev
    /\ conns' = Replace(conns, r, [r EXCEPT !.pc = "getPrimaryService", !.live = TRUE])
    /\ last' = [Step("connect", r.via, "pending", <<>>, <<>>) EXCEPT !.at = "gattConnect"]
    /\ UNCHANGED <<device, characteristic, isInventoryRunning, ops, known,
                   devListeners, chListeners, sent, now, uiVars, seen, delivered>>

\* server.getPrimaryService() resolves
GetPrimaryServiceOk(r) ==
    /\ r.pc = "getPrimaryService"
    /\ r.live
    /\ conns' = Replace(conns, r, [r EXCEPT !.pc = "getCharacteristic"])
    /\ last' = [Step("connect", r.via, "pending", <<>>, <<>>) EXCEPT !.at = "getPrimaryService"]
    /\ UNCHANGED <<svcVars, ops, bleVars, now, uiVars, seen, delivered>>

\* service.getCharacteristic() resolves
GetCharacteristicOk(r) ==
    /\ r.pc = "getCharacteristic"
    /\ r.live
    /\ characteristic' = [dev |-> r.dev, live |-> TRUE]
    /\ conns' = Replace(conns, r, [r EXCEPT !.pc = "startNotifications"])
    /\ last' = [Step("connect", r.via, "pending", <<>>, <<>>) EXCEPT !.at = "getCharacteristic"]
    /\ UNCHANGED <<device, server, isInventoryRunning, ops, bleVars, now,
                   uiVars, seen, delivered>>

\* characteristic.writeValue(command) for each frame of w (none or one):
\* the promise joins the pending writes
WriteValue(kind, via, w) ==
    /\ w # <<>> => BagCardinality(ops) < MaxOps
    /\ ops' = IF w = <<>> THEN ops
              ELSE ops (+) One([kind |-> kind, dev |-> characteristic.dev,
                                live |-> characteristic.live, via |-> via])
    /\ sent' = IF w # <<>> /\ characteristic.live /\ sent[characteristic.dev] < MaxSent
               THEN [sent EXCEPT ![characteristic.dev] = @ + 1]
               ELSE sent

\* the frames each command hands to writeValue when called with
\* this.characteristic = ch; first a startInventory without its guard
startInventoryWritesNoGuard(ch) == <<StartFrame>>
startInventoryWrites(ch) == IF ch.dev = NULL THEN <<>> ELSE <<StartFrame>>
stopInventoryWrites(ch) == IF ch.dev = NULL THEN <<>> ELSE <<StopFrame>>
getPowerWrites(ch) == IF ch.dev = NULL THEN <<>> ELSE <<GetPowerFrame>>
\* a variant without the range check
setPowerWritesAnyPower(ch, p) ==
    IF ch.dev = NULL THEN <<>> ELSE <<SetPowerFrame(p)>>
setPowerWrites(ch, p) ==
    IF ch.dev = NULL THEN <<>>
    ELSE IF p < 0 \/ p > 30 THEN <<>>
    ELSE <<SetPowerFrame(p)>>

\* connect() resumes after startNotifications and runs to its end; when
\* handleConnect awaits it, handleConnect goes on to setPower(power)
StartNotificationsOk(r) ==
    LET w == IF r.via = "ui" THEN setPowerWrites(characteristic, r.pw) ELSE <<>>
    IN
    /\ r.pc = "startNotifications"
    /\ r.live
    /\ UNCHANGED <<svcVars, known, gattConnected, now, tags, power, seen, delivered>>
    /\ IF characteristic.dev = NULL
       THEN \* this.characteristic.addEventListener on null
            /\ ConnectCatch(r, "addEventListener(characteristic)")
            /\ UNCHANGED <<ops, devListeners, chListeners, sent>>
       ELSE /\ characteristic.live => chListeners[characteristic.dev] < MaxListeners
            /\ chListeners' = IF characteristic.live
                              THEN [chListeners EXCEPT ![characteristic.dev] = @ + 1]
                              ELSE chListeners
            /\ IF device = NULL
               THEN \* this.device.addEventListener on null
                    /\ ConnectCatch(r, "addEventListener(device)")
                    /\ UNCHANGED <<ops, devListeners, sent>>
               ELSE /\ devListeners[device] < MaxListeners
                    /\ devListeners' = [devListeners EXCEPT ![device] = @ + 1]
                    /\ conns' = conns (-) One(r)
                    /\ Emit(<<"connected">>)
                    /\ WriteValue("setPower", r.via, w)
                    /\ last' = [Step("connect", r.via, "resolved", <<"connected">>, w)
                                  EXCEPT !.at = "startNotifications", !.arg = r.pw]

\* cleanup()
cleanup ==
    /\ device' = NULL
    /\ server' = NULL
    /\ characteristic' = NoChar
    /\ isInventoryRunning' = FALSE

\* the connection of device d ends: its pending promises will reject, its
\* characteristic object is dead
LinkDown(d) ==
    /\ gattConnected' = [gattConnected EXCEPT ![d] = FALSE]
    /\ chListeners' = [chListeners EXCEPT ![d] = 0]
    /\ sent' = [sent EXCEPT ![d] = 0]
    /\ conns' = StaleConns(conns, d)
    /\ ops' = StaleOps(ops, d)
    /\ UNCHANGED <<known, devListeners>>

\* handleDisconnect, run by n >= 1 listeners one after the other
handleDisconnect(n) ==
    /\ cleanup
    /\ Emit(Repeat("disconnected", n))

\* the connection of device d is lost (reader switched off or out of range):
\* 'gattserverdisconnected' fires at d and the listeners registered on d run
GattServerDisconnected(d) ==
    /\ gattConnected[d]
    /\ LinkDown(d)
    /\ IF devListeners[d] > 0
       THEN handleDisconnect(devListeners[d])
       ELSE /\ characteristic' = StaleChar(characteristic, d)
            /\ UNCHANGED <<device, server, isInventoryRunning, connectionStatus, isScanning>>
    /\ last' = Step("gattserverdisconnected", "ble", "void",
                    Repeat("disconnected", devListeners[d]), <<>>)
    /\ UNCHANGED <<now, tags, power, seen, delivered>>

\* disconnect(); gatt.disconnect() fires 'gattserverdisconnected' at the
\* device before it returns.  handleDisconnect (the click handler of
\* RFIDReader) also empties the tag collection
disconnect(via) ==
    LET hit == device # NULL /\ gattConnected[device]
        n == IF hit THEN devListeners[device] ELSE 0
        emits == Repeat("disconnected", n + 1)
    IN
    /\ IF hit THEN LinkDown(device)
              ELSE UNCHANGED <<bleVars, conns, ops>>
    /\ cleanup
    /\ Emit(emits)
    /\ IF via = "ui" THEN tags' = EmptyMap /\ seen' = EmptyMap
                     ELSE UNCHANGED <<tags, seen>>
    /\ last' = [Step("disconnect", via, "void", emits, <<>>)
                  EXCEPT !.at = IF hit THEN "gatt.disconnect" ELSE ""]
    /\ UNCHANGED <<now, power, delivered>>

\* the part of a command up to its await: the guard, the frame, writeValue.
\* w is the frames it hands to writeValue, none when it returns at once
Command(kind, via, p, w) ==
    /\ WriteValue(kind, via, w)
    /\ last' = [Step(kind, via,
                     IF w # <<>> THEN "pending"
                     ELSE IF kind = "getPower" THEN "null" ELSE "false",
                     <<>>, w) EXCEPT !.arg = p, !.at = "call"]
    /\ UNCHANGED <<svcVars, conns, known, gattConnected, devListeners, chListeners,
                   now, connectionStatus, tags, seen, delivered>>

startInventory(via) ==
    /\ Command("startInventory", via, 0, startInventoryWrites(characteristic))
    /\ UNCHANGED <<isScanning, power>>

\* handleStopScan sets isScanning to false whatever stopInventory returns
stopInventory(via) ==
    LET w == stopInventoryWrites(characteristic)
    IN  /\ Command("stopInventory", via, 0, w)
        /\ isScanning' = IF via = "ui" /\ w = <<>> THEN FALSE ELSE isScanning
        /\ UNCHANGED power

getPower(via) ==
    /\ Command("getPower", via, 0, getPowerWrites(characteristic))
    /\ UNCHANGED <<isScanning, power>>

\* handlePowerChange stores the new slider value before it calls setPower
setPower(via, p) ==
    /\ Command("setPower", via, p, setPowerWrites(characteristic, p))
    /\ power' = IF via = "ui" THEN p ELSE power
    /\ UNCHANGED isScanning

\* the running flag after the write of a command has succeeded
RunningAfterOk(kind, running) ==
    IF kind = "startInventory" THEN TRUE
    ELSE IF kind = "stopInventory" THEN FALSE
    ELSE running

\* the running flag after the write of a command has failed: the catch
\* block leaves it alone
RunningAfterFail(kind, running) == running

\* writeValue resolves: the command resumes, sets its flag and returns true
\* (getPower: null); handleStartScan / handleStopScan then update the UI
WriteOk(r) ==
    /\ r.live
    /\ ops' = ops (-) One(r)
    /\ isInventoryRunning' = RunningAfterOk(r.kind, isInventoryRunning)
    /\ isScanning' = IF r.via = "ui" /\ r.kind = "startInventory" THEN TRUE
                     ELSE IF r.via = "ui" /\ r.kind = "stopInventory" THEN FALSE
                     ELSE isScanning
    /\ IF r.via = "ui" /\ r.kind = "startInventory"
       THEN tags' = EmptyMap /\ seen' = EmptyMap
       ELSE UNCHANGED <<tags, seen>>
    /\ last' = [Step(r.kind, r.via, IF r.kind = "getPower" THEN "null" ELSE "true", <<>>, <<>>)
                  EXCEPT !.at = "writeOk"]
    /\ UNCHANGED <<device, server, characteristic, conns, bleVars, now,
                   connectionStatus, power, delivered>>

\* writeValue rejects: the catch block of the command returns false (null)
WriteFail(r) ==
    /\ ops' = ops (-) One(r)
    /\ isInventoryRunning' = RunningAfterFail(r.kind, isInventoryRunning)
    /\ isScanning' = IF r.via = "ui" /\ r.kind = "stopInventory" THEN FALSE ELSE isScanning
    /\ last' = [Step(r.kind, r.via, IF r.kind = "getPower" THEN "null" ELSE "false", <<>>, <<>>)
                  EXCEPT !.at = "writeFail"]
    /\ UNCHANGED <<device, server, characteristic, conns, bleVars, now,
                   connectionStatus, tags, power, seen, delivered>>

(* ---------------------------- notifications ---------------------------- *)
\* (b >> 3) & 0x1F; undefined >> 3 is 0.  First the mask without the shift
EpcLenFieldNoShift(b) == IF b < 0 THEN 0 ELSE b % 32
EpcLenField(b) == IF b < 0 THEN 0 ELSE (b \div 8) % 32

\* parseTagData: <<>> for null, <<tag>> for a tag.  Only rssi.toString() can
\* throw, when data[5] is undefined; slice never reads out of bounds
parseTagData(data, t) ==
    LET rssi == At(data, 5)
        pcBytes == Slice(data, 6, 8)
        pc == Join([k \in 1..Len(pcBytes) |-> ToHex(pcBytes[k])])
        epcLen == EpcLenField(At(data, 6)) * 2
        bytes == Slice(data, 8, 8 + epcLen)
        epc == Join([k \in 1..Len(bytes) |-> ToUpperCase(ToHex(bytes[k]))])
    IN  IF rssi < 0 THEN <<>>
        ELSE <<[epc |-> epc, rssi |-> DecStr(rssi), count |-> 1, pc |-> pc,
                timestamp |-> t]>>

\* handleNotification: the tags it passes to the tag subscriber
handleNotification(data, t) ==
    IF Len(data) > 5 /\ data[1] = 160
    THEN IF data[4] = 34 \/ data[4] = 39
         THEN parseTagData(data, t)
         ELSE <<>>
    ELSE <<>>

\* the statuses handleNotification emits: none, whatever the notification.
\* First a handler that reports a notification it drops as status 'error'
statusOnNotificationReportsDrop(data) ==
    IF handleNotification(data, 0) = <<>> THEN <<"error">> ELSE <<>>
statusOnNotification(data) == <<>>

\* frames as the reader sends them: header, length, address, command, one
\* byte the parser skips, RSSI, PC word, EPC bytes, checksum
InventoryFrame(hdr, cmd, rssi, pcw, epc) ==
    LET body == <<hdr, 6 + Len(epc), 1, cmd, 0, rssi>> \o pcw \o epc
    IN  body \o <<SumSeq(body) % 256>>
Corrupt(f) == [f EXCEPT ![Len(f)] = (@ + 1) % 256]
Prefixes(f) == {Slice(f, 0, k) : k \in 0..Len(f)}
ChecksumOK(data) ==
    /\ Len(data) > 0
    /\ data[Len(data)] = SumSeq(SubSeq(data, 1, Len(data) - 1)) % 256

\* PC words: EPC length 0, 2, 2 (with hex letters in the word) and 4 bytes
PcWords == {<<0, 0>>, <<8, 0>>, <<10, 188>>, <<16, 0>>}
EpcSamples == {<<>>, <<171>>, <<171, 205>>, <<1, 2, 3, 4>>}
WellFormed ==
    {InventoryFrame(h, c, 200, pcw, e) :
        h \in {160, 85}, c \in {34, 39, 183}, pcw \in PcWords, e \in EpcSamples}
\* the notifications the decoder is examined on
Notifications ==
    WellFormed \cup {Corrupt(f) : f \in WellFormed}
               \cup UNION {Prefixes(f) : f \in {InventoryFrame(160, 34, 200, <<8, 0>>, <<171, 205>>)}}
\* the notifications delivered while the session is examined
FewNotifications ==
    {InventoryFrame(160, 34, 200, <<8, 0>>, <<171, 205>>),
     InventoryFrame(160, 34, 200, <<10, 188>>, <<1, 2>>),
     InventoryFrame(160, 183, 20, <<>>, <<>>)}

RECURSIVE Times(_, _, _)
\* the tag subscriber invoked k times with the same tag
Times(m, tag, k) == IF k = 0 THEN m ELSE Times(OnTagRead(m, tag), tag, k - 1)

\* the tag-read events since the last clear
Seen(m, tag, k) ==
    IF k = 0 THEN m
    ELSE [e \in DOMAIN m \cup {tag.epc} |->
            IF e = tag.epc
            THEN [n |-> (IF e \in DOMAIN m THEN m[e].n ELSE 0) + k, t |-> tag.timestamp]
            ELSE m[e]]

\* 'characteristicvaluechanged' fires at the characteristic of device d with
\* value data: every handleNotification registered on it runs
Notify(d, data) ==
    LET cb == handleNotification(data, now)
        k == IF cb = <<>> THEN 0 ELSE chListeners[d]
    IN
    /\ delivered < MaxNotifs
    /\ gattConnected[d] /\ chListeners[d] > 0
    /\ delivered' = delivered + 1
    /\ tags' = IF k = 0 THEN tags ELSE Times(tags, cb[1], k)
    /\ seen' = IF k = 0 THEN seen ELSE Seen(seen, cb[1], k)
    /\ Emit(statusOnNotification(data))
    /\ last' = [Step("handleNotification", "ble", "void", statusOnNotification(data), <<>>)
                  EXCEPT !.data = data, !.cb = cb, !.calls = k, !.arg = chListeners[d]]
    /\ UNCHANGED <<svcVars, conns, ops, bleVars, now, power>>

\* time passes
Tick ==
    /\ now < MaxTime
    /\ now' = now + 1
    /\ UNCHANGED <<svcVars, conns, ops, bleVars, uiVars, seen, delivered, last>>

(* ------------------------ RFIDReader click handlers -------------------- *)
\* each handler is enabled when its control is rendered and not disabled
handleConnect ==
    /\ connectionStatus # "connected"
    /\ connectionStatus # "connecting"
    /\ connect("ui")

handleDisconnectClick ==
    /\ connectionStatus = "connected"
    /\ disconnect("ui")

handleStartScan ==
    /\ connectionStatus = "connected"
    /\ ~isScanning
    /\ startInventory("ui")

handleStopScan ==
    /\ connectionStatus = "connected"
    /\ isScanning
    /\ stopInventory("ui")

handlePowerChange(newPower) ==
    /\ connectionStatus = "connected"
    /\ ~isScanning
    /\ newPower # power
    /\ setPower("ui", newPower)

clearTags ==
    /\ connectionStatus = "connected"
    /\ tags # EmptyMap
    /\ tags' = EmptyMap
    /\ seen' = EmptyMap
    /\ last' = Step("clearTags", "ui", "void", <<>>, <<>>)
    /\ UNCHANGED <<svcVars, conns, ops, bleVars, now, connectionStatus,
                   isScanning, power, delivered>>

(* ---------------------------- specifications --------------------------- *)
\* what the transport does: the steps of a connection, and with them the
\* outcomes of the writes
Link ==
    \/ \E r \in BagToSet(conns) : ConnectFail(r)
    \/ \E r \in BagToSet(conns), d \in Devices, hasGatt \in BOOLEAN : RequestDeviceOk(r, d, hasGatt)
    \/ \E r \in BagToSet(conns) : GattConnectOk(r)
    \/ \E r \in BagToSet(conns) : GetPrimaryServiceOk(r)
    \/ \E r \in BagToSet(conns) : GetCharacteristicOk(r)
    \/ \E r \in BagToSet(conns) : StartNotificationsOk(r)
    \/ \E d \in Devices : GattServerDisconnected(d)

Transport ==
    \/ Link
    \/ \E r \in BagToSet(ops) : WriteOk(r)
    \/ \E r \in BagToSet(ops) : WriteFail(r)

\* the facade called by any caller at any time
Next ==
    \/ connect("api")
    \/ disconnect("api")
    \/ startInventory("api")
    \/ stopInventory("api")
    \/ getPower("api")
    \/ \E p \in PowerSamples : setPower("api", p)
    \/ Transport

Spec == Init /\ [][Next]_vars

\* setPower called with every power value, one connect() at a time
NextPower ==
    \/ conns = EmptyBag /\ connect("api")
    \/ disconnect("api")
    \/ \E p \in PowerInputs : setPower("api", p)
    \/ Transport

SpecPower == Init /\ [][NextPower]_vars

\* the facade called by RFIDReader
NextUI ==
    \/ handleConnect
    \/ handleDisconnectClick
    \/ handleStartScan
    \/ handleStopScan
    \/ \E p \in SliderValues : handlePowerChange(p)
    \/ Transport

SpecUI == Init /\ [][NextUI]_vars

\* RFIDReader while tags are read: one connect() at a time
NextScan ==
    \/ conns = EmptyBag /\ handleConnect
    \/ handleDisconnectClick
    \/ handleStartScan
    \/ handleStopScan
    \/ clearTags
    \/ \E d \in Devices, data \in FewNotifications : Notify(d, data)
    \/ Tick
    \/ Transport

SpecScan == Init /\ [][NextScan]_vars

\* the decoder: the connection life cycle, one connect() at a time, and the
\* notifications of MaxDecoded deliveries; no command is written
NextNotify ==
    \/ conns = EmptyBag /\ connect("api")
    \/ disconnect("api")
    \/ \E d \in Devices, data \in Notifications : delivered < MaxDecoded /\ Notify(d, data)
    \/ Link

SpecNotify == Init /\ [][NextNotify]_vars

TypeOK ==
    /\ device \in Devices \cup {NULL}
    /\ connectionStatus \in Status
    /\ characteristic.live => gattConnected[characteristic.dev]

(* ------------------------------- claims -------------------------------- *)
\* a step that calls a command of the facade (as opposed to the step in
\* which its write settles)
Called(op) == last.op = op /\ last.at = "call"

\* C1: whenever the status most recently emitted is not 'connected',
\* startInventory() returns false at once and hands nothing to writeValue
C1_StartInventoryNeedsConnected ==
    (Called("startInventory") /\ connectionStatus # "connected")
        => (last.ret = "false" /\ last.writes = <<>>)

\* C2: after disconnect() and after a transport disconnect event the channel
\* reference is cleared, the running flag is false, 'disconnected' was
\* emitted and no frame was written; both leave the same session state
C2_DisconnectClearsSession ==
    last.op \in {"disconnect", "gattserverdisconnected"}
        => /\ characteristic = NoChar
           /\ device = NULL
           /\ server = NULL
           /\ isInventoryRunning = FALSE
           /\ last.emits # <<>>
           /\ connectionStatus = "disconnected"
           /\ last.writes = <<>>

\* C3: connect() called while the status is 'connected' or 'connecting'
\* starts no discovery and leaves the handles as they are
C3_ConnectRejectedWhenBusy ==
    [][(last'.op = "connect" /\ last'.at = "call"
            /\ connectionStatus \in {"connected", "connecting"})
        => (conns' = conns /\ device' = device /\ characteristic' = characteristic)]_vars

\* C4: a notification whose last byte is not the modulo-256 sum of the bytes
\* before it reaches neither the tag parser nor the tag subscriber
C4_BadChecksumDropped ==
    (last.op = "handleNotification" /\ ~ChecksumOK(last.data))
        => (last.cb = <<>> /\ last.calls = 0)

\* the EPC length the PC word of an inventory response announces
AnnouncedEpcLen(data) == ((data[7] \div 8) % 32) * 2
IsInventoryResponse(data) ==
    Len(data) >= 8 /\ data[1] = 160 /\ data[4] \in {34, 39}

\* C5: an inventory response with fewer bytes after the PC word than the PC
\* word announces produces no reading
C5_ShortEpcNoReading ==
    (/\ last.op = "handleNotification"
     /\ IsInventoryResponse(last.data)
     /\ Len(last.data) - 8 < AnnouncedEpcLen(last.data))
        => (last.cb = <<>> /\ last.calls = 0)

\* C6: setPower(p) called while connected with 0 <= p <= 30 writes the one
\* frame [0xA0, 0x05, 0x01, 0xB6, p, c], c the modulo-256 sum of the five
\* bytes before it; with p < 0 or p > 30 it returns false and writes nothing
C6_SetPowerFrame ==
    Called("setPower") =>
        LET p == last.arg
        IN  IF p < 0 \/ p > 30
            THEN last.ret = "false" /\ last.writes = <<>>
            ELSE connectionStatus = "connected" =>
                    last.writes = << <<160, 5, 1, 182, p, (160 + 5 + 1 + 182 + p) % 256>> >>
C6_Witness ==
    /\ Called("setPower")
    /\ connectionStatus = "connected"
    /\ last.arg = 20
    /\ last.writes = << <<160, 5, 1, 182, 20, 112>> >>

\* C7: every frame handed to writeValue is the frame of the command that
\* wrote it, and its last byte is the modulo-256 sum of the bytes before it
C7_CanonicalFrames ==
    \A k \in 1..Len(last.writes) :
        LET f == last.writes[k]
        IN  /\ f[Len(f)] = SumSeq(SubSeq(f, 1, Len(f) - 1)) % 256
            /\ last.op = "startInventory" => f = <<160, 4, 1, 39, 204>>
            /\ last.op = "stopInventory" => f = <<160, 4, 1, 40, 205>>
            /\ last.op = "getPower" => f = <<160, 4, 1, 183, 92>>
            /\ last.op \in {"setPower", "connect"} =>
                  /\ Len(f) = 6
                  /\ SubSeq(f, 1, 4) = <<160, 5, 1, 182>>
                  /\ f[5] \in 0..30
            /\ last.op \in {"startInventory", "stopInventory", "getPower", "setPower", "connect"}
C7_Witness ==
    \/ Called("stopInventory") /\ last.writes = << <<160, 4, 1, 40, 205>> >>
       /\ isInventoryRunning

\* C8: the tag collection holds one record per EPC read since the last
\* clear; its count is the number of tag-read events for that EPC and its
\* timestamp the time of the latest of them
C8_TagCollection ==
    /\ DOMAIN tags = DOMAIN seen
    /\ \A e \in DOMAIN tags :
          /\ tags[e].epc = e
          /\ tags[e].id = e
          /\ tags[e].count = seen[e].n
          /\ tags[e].timestamp = seen[e].t
\* two notifications with the same EPC, the second at a later time
C8_Witness ==
    /\ delivered = 2
    /\ last.op = "handleNotification" /\ last.calls = 1
    /\ \E e \in DOMAIN tags : tags[e].count = 2 /\ tags[e].timestamp = 1

\* C9: the running flag and the stored power level change only when a write
\* has succeeded (or the session is torn down), never before or without it
C9_NoSpeculativeUpdate ==
    [][(power' # power \/ isInventoryRunning' # isInventoryRunning)
        => (last'.at = "writeOk" \/ last'.op \in {"disconnect", "gattserverdisconnected"})]_vars

\* C10: the step in which connect() resolves emits 'connected' and hands to
\* writeValue the set-power frame of the configured power level, the first
\* frame on that connection
C10_SetPowerOnConnect ==
    (last.op = "connect" /\ last.ret = "resolved")
        => /\ last.emits = <<"connected">>
           /\ last.writes = << <<160, 5, 1, 182, power, (160 + 5 + 1 + 182 + power) % 256>> >>
           /\ characteristic.live => sent[characteristic.dev] = 1

\* C11: a connect() attempt ends either resolved, having emitted 'connected',
\* or rejected, and then the step that ends it (at whichever await or
\* statement it failed) emits exactly 'error', which becomes the current
\* status; no step of a pending attempt emits 'connected'
C11_ConnectFailureEmitsError ==
    [][/\ BagCardinality(conns') < BagCardinality(conns)
          => /\ last'.op = "connect"
             /\ \/ last'.ret = "resolved" /\ last'.emits = <<"connected">>
                \/ /\ last'.ret = "rejected"
                   /\ last'.emits = <<"error">>
                   /\ connectionStatus' = "error"
       /\ (last'.op = "connect" /\ last'.ret = "pending")
          => (\A k \in 1..Len(last'.emits) : last'.emits[k] = "connecting")]_vars
\* connect() rejected by startNotifications, the last await of the sequence
C11_Witness ==
    /\ last.op = "connect" /\ last.ret = "rejected" /\ last.at = "startNotifications"
    /\ last.emits = <<"error">>
    /\ connectionStatus = "error"

\* the session is disconnected: no handle is held, no inventory runs and
\* the status most recently emitted is 'disconnected'
Disconnected ==
    /\ device = NULL /\ server = NULL /\ characteristic = NoChar
    /\ ~isInventoryRunning
    /\ connectionStatus = "disconnected"

\* C12: disconnect() on a session that is already disconnected calls no
\* transport primitive, changes no session field and emits no status
C12_DisconnectIdempotent ==
    [][(Disconnected /\ last'.op = "disconnect")
        => /\ last'.at = ""
           /\ <<device, server, characteristic, isInventoryRunning>>' =
                 <<device, server, characteristic, isInventoryRunning>>
           /\ last'.emits = <<>>]_vars

\* a valid inventory response: header, command 0x22 or 0x27, the EPC bytes
\* its PC word announces, and a last byte that is the checksum of the rest
ValidInventoryResponse(data) ==
    /\ IsInventoryResponse(data)
    /\ Len(data) = 8 + AnnouncedEpcLen(data) + 1
    /\ ChecksumOK(data)

\* C13: a delivered notification invokes the tag subscriber exactly once
\* when it is a valid inventory response, and not at all otherwise
C13_SubscriberOncePerNotification ==
    last.op = "handleNotification"
        => last.calls = IF ValidInventoryResponse(last.data) THEN 1 ELSE 0

\* C14: with no characteristic held, startInventory, stopInventory, setPower
\* and getPower return false (getPower: null) in the step of the call: no
\* frame is handed to writeValue, no write is left pending, no session
\* field changes and no status is emitted
C14_NoChannelFailsAtOnce ==
    [][(/\ characteristic = NoChar
        /\ last'.op \in {"startInventory", "stopInventory", "setPower", "getPower"}
        /\ last'.at = "call")
        => /\ last'.ret = IF last'.op = "getPower" THEN "null" ELSE "false"
           /\ last'.writes = <<>>
           /\ last'.emits = <<>>
           /\ ops' = ops /\ sent' = sent
           /\ <<device, server, characteristic, isInventoryRunning>>' =
                 <<device, server, characteristic, isInventoryRunning>>
           /\ connectionStatus' = connectionStatus]_vars
\* startInventory() refused after a session has been closed
C14_Witness ==
    /\ Called("startInventory") /\ last.ret = "false" /\ last.writes = <<>>
    /\ characteristic = NoChar
    /\ known # {}

\* C15 as stated: in every frame handed to writeValue the length byte is the
\* number of bytes between it and the checksum: address, command, payload
C15_LengthExcludesChecksum ==
    \A k \in 1..Len(last.writes) :
        LET f == last.writes[k] IN f[2] = Len(f) - 3

\* C15: in every frame handed to writeValue the length byte is the number of
\* bytes that follow the header: the length byte itself, address, command,
\* payload and checksum, 4 + payload length (4 for the commands without
\* payload, 5 for setPower)
C15_LengthCountsAfterHeader ==
    \A k \in 1..Len(last.writes) :
        LET f == last.writes[k]
        IN  /\ Len(f) >= 5
            /\ f[2] = Len(f) - 1
            /\ f[2] = 4 + (Len(f) - 5)
\* setPower(30) writes a six-byte frame with length byte 5
C15_Witness ==
    /\ Called("setPower") /\ last.arg = 30
    /\ Len(last.writes) = 1
    /\ Len(last.writes[1]) = 6 /\ last.writes[1][2] = 5

\* the uppercase hexadecimal rendering of a sequence of bytes, two
\* characters a byte
UpperDigits == <<"0", "1", "2", "3", "4", "5", "6", "7", "8", "9",
                 "A", "B", "C", "D", "E", "F">>
UpperHexOf(bytes) ==
    [i \in 1..(2 * Len(bytes)) |->
        LET b == bytes[(i + 1) \div 2]
        IN  UpperDigits[(IF i % 2 = 1 THEN b \div 16 ELSE b % 16) + 1]]

\* C16: an inventory response that carries exactly the L EPC bytes its PC
\* word announces (followed by nothing, or by the checksum byte) is parsed:
\* the subscriber receives a reading with count 1 whose EPC is the uppercase
\* hex rendering of those L bytes, 2L characters
C16_ExactEpcParsed ==
    (/\ last.op = "handleNotification"
     /\ IsInventoryResponse(last.data)
     /\ Len(last.data) - 8 \in {AnnouncedEpcLen(last.data), AnnouncedEpcLen(last.data) + 1})
        => /\ last.calls >= 1
           /\ Len(last.cb) = 1
           /\ last.cb[1].count = 1
           /\ last.cb[1].epc = UpperHexOf(SubSeq(last.data, 9, 8 + AnnouncedEpcLen(last.data)))
           /\ Len(last.cb[1].epc) = 2 * AnnouncedEpcLen(last.data)
\* the response with PC word 08 00 and EPC bytes AB CD
C16_Witness ==
    /\ last.op = "handleNotification"
    /\ last.data = <<160, 8, 1, 34, 0, 200, 8, 0, 171, 205, 19>>
    /\ last.calls = 1
    /\ last.cb[1].epc = <<"A", "B", "C", "D">>

\* C17: the pc field of every tag passed to the subscriber is 4 uppercase
\* hexadecimal characters
C17_PcUppercase ==
    (last.op = "handleNotification" /\ last.cb # <<>>)
        => /\ Len(last.cb[1].pc) = 4
           /\ \A k \in 1..Len(last.cb[1].pc) :
                 \E j \in 1..16 : last.cb[1].pc[k] = UpperDigits[j]

\* C18: handling a notification, whatever its content, leaves the handles
\* and the running flag as they were, emits no status, and leaves every
\* pending connect() and command as it was
C18_NotificationLeavesSession ==
    [][last'.op = "handleNotification"
        => /\ <<device, server, characteristic, isInventoryRunning>>' =
                 <<device, server, characteristic, isInventoryRunning>>
           /\ last'.emits = <<>>
           /\ connectionStatus' = connectionStatus
           /\ last'.ret = "void"
           /\ conns' = conns /\ ops' = ops]_vars
\* a notification that is dropped, handled while a session is established
C18_Witness ==
    /\ last.op = "handleNotification"
    /\ ~ValidInventoryResponse(last.data)
    /\ last.calls = 0
    /\ connectionStatus = "connected"
    /\ characteristic.live

\* C19: whenever the running flag is set, a characteristic is held
C19_RunningImpliesChannel ==
    isInventoryRunning => characteristic # NoChar

\* C20: a connect() that was suspended when disconnect() ran is abandoned:
\* when it resumes (here in the step right after the disconnect) it
\* installs neither server nor characteristic and emits no 'connected', so
\* the session stays disconnected
C20_DisconnectAbandonsConnect ==
    [][(/\ last.op = "disconnect"
        /\ last'.op = "connect" /\ last'.at # "call")
        => /\ server' = server
           /\ characteristic' = characteristic
           /\ \A k \in 1..Len(last'.emits) : last'.emits[k] # "connected"
           /\ connectionStatus' = "disconnected"]_vars

\* no pending connect() has a GATT connection yet: a connection that exists
\* was made by an earlier attempt
NoAttemptHasLink ==
    \A r \in BagToSet(conns) : r.pc \in {"requestDevice", "gattConnect"}

\* C21: while a connect() is pending that has no connection of its own yet,
\* the loss of a connection left by an earlier attempt clears no handle,
\* leaves the running flag alone and emits no status
C21_StaleDisconnectIgnored ==
    [][(/\ connectionStatus = "connecting"
        /\ conns # EmptyBag
        /\ NoAttemptHasLink
        /\ last'.op = "gattserverdisconnected")
        => /\ device' = device
           /\ server' = server
           /\ characteristic'.dev = characteristic.dev
           /\ isInventoryRunning' = isInventoryRunning
           /\ last'.emits = <<>>
           /\ connectionStatus' = connectionStatus]_vars

\* C22: whenever no connect() and no command is in flight, the isScanning
\* flag of RFIDReader equals the isInventoryRunning flag of the service
C22_ScanningEqualsRunning ==
    (conns = EmptyBag /\ ops = EmptyBag) => isScanning = isInventoryRunning

====
